---- MODULE Spec2Model ----
(***************************************************************************)
(* A model of rusti: the Repl of src/rusti/repl.rs and the ExecutionEngine *)
(* of src/rusti/exec.rs.                                                   *)
(*                                                                         *)
(* A Rust String is a sequence of tokens (a token is a TLA+ string that    *)
(* stands for a run of characters); "\n" is the newline token.  Command    *)
(* names are sequences of one-character tokens, so that starts_with is   *)
(* a real prefix test.  Option<T> is a sequence of length at most one.     *)
(***************************************************************************)
EXTENDS Naturals, Integers, Sequences, FiniteSets, TLC

VARIABLES
    attributes,   \* Repl.attributes : Vec<String>
    view_items,   \* Repl.view_items : Vec<(ViewItem, String)>
    items,        \* Repl.items      : Vec<String>
    read_block,   \* Repl.read_block : bool
    modules,      \* ExecutionEngine.modules   : Vec<ModuleRef>
    lib_paths,    \* ExecutionEngine.lib_paths : Vec<String>
    sysroot,      \* ExecutionEngine.sysroot   : Path
    api,          \* the public method that is executing ("none" between calls)
    pc,           \* the position inside it
    more,         \* the local variable more of Repl::run
    cur,          \* the InputResult being handled (Option)
    prompt,       \* the prompt of the read of Repl::run that returned cur ("" if none)
    input,        \* handle_input's input after the rewrite of its statements (Option)
    body,         \* the program argument of the build_program call (Option)
    prog,         \* the program text built by build_program (Option)
    worker,       \* the compiler thread that is alive: "none", "compile", "analysis"
    compiled,     \* what compile_input returned to add_module (Option of [llmod, deps])
    deps_left,    \* load_deps: the dependencies not loaded yet
    loaded,       \* the libraries loaded by the running add_module call, in order
    fp,           \* what get_function / get_global returned (Option of an address)
    ran,          \* how the call of the entry function ended: "none", "normal", "fault"
    analysis,     \* how the thread of with_analysis ended: "none", "error", "no_type", "typed"
    out,          \* the lines printed on stdout by the handler that is executing
    result,       \* what the last public call returned (Option)
    pre,          \* the fields of Repl and engine when the handler was entered
    rounds,       \* the number of inputs read so far
    committed     \* the number of rounds handle_input has committed so far

vars == << attributes, view_items, items, read_block, modules, lib_paths, sysroot,
           api, pc, more, cur, prompt, input, body, prog, worker, compiled, deps_left, loaded,
           fp, ran, analysis, out, result, pre, rounds, committed >>

session == << attributes, view_items, items >>
engine == << modules, lib_paths, sysroot >>
locals == << cur, prompt, input, body, prog, worker, compiled, deps_left, loaded,
            fp, ran, analysis, pre >>
\* The locals but cur and pre
inner == << prompt, input, body, prog, worker, compiled, deps_left, loaded, fp, ran,
           analysis >>

-----------------------------------------------------------------------------
(* Bounds *)

\* The number of inputs (rounds, commands, reads) one behaviour handles.
MaxRounds == 3
\* The longest view-item sequence drawn for the session or for an input
\* when build_program is checked on its own.
MaxViewItems == 2

-----------------------------------------------------------------------------
(* Option, strings *)

None == << >>
Some(x) == << x >>
IsSome(o) == Len(o) = 1
Unwrap(o) == o[1]

NL == << "\n" >>

Range(s) == { s[i] : i \in 1..Len(s) }

\* str::starts_with
starts_with(s, p) == Len(p) <= Len(s) /\ SubSeq(s, 1, Len(p)) = p

\* [String].connect(sep)
RECURSIVE connect(_, _)
connect(v, sep) ==
    IF v = << >> THEN << >>
    ELSE IF Len(v) = 1 THEN v[1]
    ELSE v[1] \o sep \o connect(Tail(v), sep)

\* Sequences over S of length at most n
BSeq(S, n) == UNION { [1..k -> S] : k \in 0..n }

-----------------------------------------------------------------------------
(* repl.rs: constants *)

\* static COMMANDS
CmdBlock == << "b", "l", "o", "c", "k" >>
CmdType == << "t", "y", "p", "e" >>
COMMANDS == << CmdBlock, CmdType >>

\* The prompts of Repl::run
DEFAULT_PROMPT == "rusti=> "
MORE_PROMPT == "rusti.> "
BLOCK_PROMPT == "rusti+> "

\* The name handle_input gives the entry function, and type_command the probe
RunName == "_rusti_run"
TypeName == "_rusti_type"

\* fn lookup_command: the first entry of COMMANDS that starts with name
RECURSIVE lookup_from(_, _)
lookup_from(i, name) ==
    IF i > Len(COMMANDS) THEN None
    ELSE IF starts_with(COMMANDS[i], name) THEN Some(COMMANDS[i])
    ELSE lookup_from(i + 1, name)

lookup_command(name) == lookup_from(1, name)

-----------------------------------------------------------------------------
(* input.rs (not among the sources): the types the Repl receives *)

\* enum ViewItem, ordered as the sort in build_program expects:
\* extern crate before use
ViewItemOrd(tag) == IF tag = "ExternCrate" THEN 0 ELSE 1

\* struct Input
Input(a, v, i, s, l) ==
    [ attributes |-> a, view_items |-> v, items |-> i,
      statements |-> s, last_expr |-> l ]

\* enum InputResult
Program(i) == [ tag |-> "Program", input |-> i ]
Command(name, args) == [ tag |-> "Command", name |-> name, args |-> args ]
Empty == [ tag |-> "Empty" ]
More == [ tag |-> "More" ]
Eof == [ tag |-> "Eof" ]
InputError(err) == [ tag |-> "InputError", err |-> err ]

-----------------------------------------------------------------------------
(* Repl::build_program *)

\* An unstable variant: x goes behind the elements of its own tag too.
RECURSIVE sort_insert_unstable(_, _)
sort_insert_unstable(x, s) ==
    IF s = << >> THEN << x >>
    ELSE IF ViewItemOrd(s[1][1]) <= ViewItemOrd(x[1])
         THEN << s[1] >> \o sort_insert_unstable(x, Tail(s))
         ELSE << x >> \o s

\* Where a stable sort puts x among the already sorted later elements:
\* behind every element of a smaller tag, ahead of every other one.
RECURSIVE sort_insert(_, _)
sort_insert(x, s) ==
    IF s = << >> THEN << x >>
    ELSE IF ViewItemOrd(s[1][1]) < ViewItemOrd(x[1])
         THEN << s[1] >> \o sort_insert(x, Tail(s))
         ELSE << x >> \o s

\* vitems.sort_by(|&(a, _), &(b, _)| a.cmp(&b)): a stable sort by tag
RECURSIVE sort_by(_)
sort_by(v) ==
    IF v = << >> THEN << >> ELSE sort_insert(v[1], sort_by(Tail(v)))

\* vitems.iter().map(|&(_, s)| s)
Texts(v) == [ i \in 1..Len(v) |-> v[i][2] ]

AllowDirective == << "#![allow(dead_code, unused_imports)]" >>

\* The format! of build_program
program_text(attrs, vitems, its, program) ==
    AllowDirective \o NL
        \o connect(attrs, NL) \o NL
        \o connect(Texts(vitems), NL) \o NL
        \o connect(its, NL) \o NL
        \o program \o NL

\* build_program with the view-items left unsorted when there is no input
build_program_unsorted_without_input(inp, program) ==
    IF IsSome(inp)
    THEN program_text(attributes \o Unwrap(inp).attributes,
                      sort_by(view_items \o Unwrap(inp).view_items),
                      items \o Unwrap(inp).items,
                      program)
    ELSE program_text(attributes, view_items, items, program)

\* build_program with the items of the input ahead of those of the session
build_program_new_items_first(inp, program) ==
    IF IsSome(inp)
    THEN program_text(attributes \o Unwrap(inp).attributes,
                      sort_by(view_items \o Unwrap(inp).view_items),
                      Unwrap(inp).items \o items,
                      program)
    ELSE program_text(attributes, sort_by(view_items), items, program)

\* fn build_program(&self, input: Option<&Input>, program: &str)
build_program(inp, program) ==
    IF IsSome(inp)
    THEN program_text(attributes \o Unwrap(inp).attributes,
                      sort_by(view_items \o Unwrap(inp).view_items),
                      items \o Unwrap(inp).items,
                      program)
    ELSE program_text(attributes, sort_by(view_items), items, program)

-----------------------------------------------------------------------------
(* Repl::handle_input, Repl::type_command: the texts they generate *)

PrintOpen == "println!(\"{}\", { "
PrintClose == " });"

\* format!(r#"println!("{{}}", {{ {} }});"#, stmt)
print_stmt(stmt) == << PrintOpen >> \o stmt \o << PrintClose >>

\* rewrite_statements wrapping the last statement whatever last_expr says
rewrite_statements_ignores_last_expr(inp) ==
    IF inp.statements # << >>
    THEN [ inp.statements EXCEPT ![Len(inp.statements)] = print_stmt(@) ]
    ELSE inp.statements

\* The statements as handle_input rewrites them
rewrite_statements(inp) ==
    IF inp.last_expr /\ inp.statements # << >>
    THEN [ inp.statements EXCEPT ![Len(inp.statements)] = print_stmt(@) ]
    ELSE inp.statements

\* The entry function handle_input passes to build_program
run_body(name, stmts) ==
    NL \o << "#[no_mangle]" >> \o NL
       \o << "pub fn ", name, "() {" >> \o NL
       \o << "    let _ = unsafe { std::rt::unwind::try(_rusti_inner) };" >> \o NL
       \o << "}" >> \o NL
       \o NL
       \o << "fn _rusti_inner() {" >> \o NL
       \o stmts \o NL
       \o << "}" >> \o NL

\* The probe function type_command passes to build_program
type_body(name, expr) ==
    NL \o << "fn ", name, "() {" >> \o NL
       \o (<< "{ " >> \o expr \o << " };" >>) \o NL
       \o << "}" >> \o NL

-----------------------------------------------------------------------------
(* exec.rs: the compiler as the engine sees it, and symbol lookup *)

\* The names a compiled module holds under their own name: those defined
\* with the keyword kw under a #[no_mangle] attribute.
NoMangle(text, kw) ==
    { text[i + 1] : i \in { j \in 3..(Len(text) - 1) :
                              text[j] = kw /\ text[j - 2] = "#[no_mangle]" } }

\* The llvm::ModuleRef a successful compile_input of text returns
Module(id, text) ==
    [ id |-> id,
      fns |-> NoMangle(text, "pub fn "),
      globals |-> NoMangle(text, "pub static ") ]

\* llvm::LLVMGetPointerToGlobal: the address of a value of a module
PointerToGlobal(m, name) == << m.id, name >>

\* The identity of the module a compile returns: a module reference that no
\* module the engine holds has
ModuleIds == { modules[i].id : i \in 1..Len(modules) }

FreshId ==
    IF ModuleIds = {} THEN 1
    ELSE (CHOOSE x \in ModuleIds : \A y \in ModuleIds : y <= x) + 1

\* The scan from the oldest module on: the first of the modules 1..i that
\* holds the function
RECURSIVE find_function_oldest(_, _)
find_function_oldest(i, name) ==
    IF i = 0 THEN None
    ELSE IF IsSome(find_function_oldest(i - 1, name))
         THEN find_function_oldest(i - 1, name)
         ELSE IF name \in modules[i].fns
              THEN Some(PointerToGlobal(modules[i], name))
              ELSE None

\* for m in self.modules.iter().rev(), LLVMGetNamedFunction
RECURSIVE find_function(_, _)
find_function(i, name) ==
    IF i = 0 THEN None
    ELSE IF name \in modules[i].fns
         THEN Some(PointerToGlobal(modules[i], name))
         ELSE find_function(i - 1, name)

\* get_function scanning from the oldest module on
get_function_oldest(name) == find_function_oldest(Len(modules), name)

\* fn get_function(&mut self, name: &str) -> Option<*const ()>
get_function(name) == find_function(Len(modules), name)

\* for m in self.modules.iter().rev(), LLVMGetNamedGlobal
RECURSIVE find_global(_, _)
find_global(i, name) ==
    IF i = 0 THEN None
    ELSE IF name \in modules[i].globals
         THEN Some(PointerToGlobal(modules[i], name))
         ELSE find_global(i - 1, name)

\* fn get_global(&mut self, name: &str) -> Option<*const ()>
get_global(name) == find_global(Len(modules), name)

-----------------------------------------------------------------------------
(* The inputs *)

AttrFeature == << "#![feature(globs)]" >>

ViewExternLibc == << "ExternCrate", << "extern crate libc;" >> >>
ViewExternTime == << "ExternCrate", << "extern crate time;" >> >>
ViewUseMem == << "Use", << "use std::mem;" >> >>
ViewUseOs == << "Use", << "use std::os;" >> >>

ItemAdd == << "fn add(a: int, b: int) -> int { a + b }" >>
ItemHello == << "#[no_mangle]", " ", "pub fn ", "hello", "() -> int { 123 }" >>
ItemFoo == << "#[no_mangle]", " ", "pub static ", "FOO", ": int = 12345;" >>
ItemGetFoo == << "#[no_mangle]", " ", "pub fn ", "get_foo", "() -> int { FOO }" >>

StmtExpr == << "1 + 1" >>
StmtLet == << "let x = 1;" >>
StmtCall == << "add(2, 3)" >>

\* The Inputs the parser hands to the Repl
Inputs ==
    { Input(<< >>, << >>, << >>, << StmtExpr >>, TRUE),
      Input(<< >>, << >>, << ItemAdd >>, << >>, FALSE),
      Input(<< AttrFeature >>, << ViewUseMem, ViewExternLibc >>, << >>,
            << StmtLet, StmtCall >>, TRUE),
      Input(<< >>, << ViewUseOs >>, << ItemHello >>, << StmtLet >>, FALSE),
      Input(<< >>, << >>, << ItemFoo >>, << >>, TRUE) }

\* The command names and arguments the parser hands to the Repl
CmdNames ==
    { << >>, << "b" >>, CmdBlock, << "t", "y" >>, CmdType,
      << "x", "y", "z" >>, << "b", "x" >>, << "t", "y", "p", "e", "s" >> }
CmdArgs == { None, Some(StmtExpr) }
Commands == { Command(n, a) : n \in CmdNames, a \in CmdArgs }

ParseErrors == { InputError(None), InputError(Some(<< "unexpected token" >>)) }

\* What parse_program, parse_command, InputReader and FileReader may return
EvalResults == { Program(i) : i \in Inputs } \cup { Empty, More } \cup ParseErrors
CommandResults == Commands \cup ParseErrors
ReadResults ==
    { Program(i) : i \in Inputs } \cup Commands \cup { Empty, More } \cup ParseErrors
FileResults == { Program(i) : i \in Inputs } \cup Commands \cup ParseErrors

\* The sessions and Inputs build_program is run on by itself
ViewChoices == { ViewExternLibc, ViewExternTime, ViewUseMem, ViewUseOs }
BuildAttributes == { << >>, << AttrFeature >> }
BuildItems == { << >>, << ItemHello, ItemFoo >> }
BuildInputs ==
    { Input(<< AttrFeature >>, v, << ItemAdd >>,
            << StmtLet, print_stmt(StmtCall) >>, TRUE) :
        v \in BSeq(ViewChoices, MaxViewItems) }

\* The sources given to the engine directly, as tests/exec.rs does
SrcEmpty == << >>
SrcHello ==
    NL \o << "#[no_mangle]" >> \o NL
       \o << "pub fn ", "hello", "() -> int {" >> \o NL
       \o << "    123" >> \o NL \o << "}" >> \o NL
SrcStatic ==
    NL \o << "#[no_mangle]" >> \o NL
       \o << "pub static ", "FOO", ": int = 12345;" >> \o NL
       \o NL \o << "#[no_mangle]" >> \o NL
       \o << "pub fn ", "get_foo", "() -> int {" >> \o NL
       \o << "    FOO" >> \o NL \o << "}" >> \o NL
SrcHelloStatic ==
    NL \o << "#[no_mangle]" >> \o NL
       \o << "pub static ", "FOO", ": int = 1;" >> \o NL
       \o NL \o << "#[no_mangle]" >> \o NL
       \o << "pub fn ", "hello", "() -> int {" >> \o NL
       \o << "    456" >> \o NL \o << "}" >> \o NL
EngineSources == { SrcEmpty, SrcHello, SrcStatic, SrcHelloStatic }

\* The names looked up in the engine
LookupNames == { "hello", "get_foo", "FOO", "_rusti_run" }

\* The dependencies compile_input may report, dependencies first
DepChoices == { << >>, << "libstd.so" >>, << "libstd.so", "liblibc.so" >> }

\* The library paths a Repl may be constructed with
LibChoices == { << >>, << "/opt/lib" >> }

\* get_sysroot(): the parent of the PATH directory that holds rustc
Sysroot == "/usr/local"

\* The fields of the Repl and of its engine
Snapshot ==
    [ attributes |-> attributes, view_items |-> view_items, items |-> items,
      read_block |-> read_block, modules |-> modules,
      lib_paths |-> lib_paths, sysroot |-> sysroot ]

-----------------------------------------------------------------------------
(* What the Repl prints *)

\* os::args()[0]
ProgName == "rusti"

\* The token of the grave accent that quotes a name in a message
Quote == "<grave>"

MsgBlockArgs == << "command ", Quote, "block", Quote, " takes no arguments" >>
MsgTypeExpects == << "command ", Quote, "type", Quote, " expects an expression" >>
MsgUnrecognized(cmd) == << "unrecognized command ", Quote >> \o cmd \o << Quote >>
MsgBlockInFile ==
    << ProgName, ": ", Quote, ".block", Quote,
       " command is not necessary when running a file" >>
MsgOpenFailed == << ProgName, ": ", "could not open file" >>
MsgFileError(e) == << ProgName, ": " >> \o e
MsgType(expr, t) == expr \o << " = " >> \o t

\* panic!("no type found"), in the closure expr_type hands to with_analysis
MsgNoTypeFound == << "no type found" >>

\* The type the analysis records for the probed expression
TypeInt == << "int" >>

-----------------------------------------------------------------------------
(* Repl::new_with_libs *)

ClearLocals ==
    /\ cur' = None /\ prompt' = "" /\ input' = None /\ body' = None
    /\ prog' = None /\ worker' = "none" /\ compiled' = None
    /\ deps_left' = << >> /\ loaded' = << >> /\ fp' = None /\ ran' = "none"
    /\ analysis' = "none" /\ pre' = None

NoLocals ==
    /\ cur = None /\ prompt = "" /\ input = None /\ body = None
    /\ prog = None /\ worker = "none" /\ compiled = None
    /\ deps_left = << >> /\ loaded = << >> /\ fp = None /\ ran = "none"
    /\ analysis = "none" /\ pre = None

\* Repl::new_with_libs(libs), with ExecutionEngine::new(libs): the engine is
\* built from the empty input String::new()
Init ==
    /\ attributes = << >> /\ view_items = << >> /\ items = << >>
    /\ read_block = FALSE
    /\ modules = << Module(1, << >>) >>
    /\ lib_paths \in LibChoices
    /\ sysroot = Sysroot
    /\ api = "none" /\ pc = "idle" /\ more = FALSE
    /\ NoLocals
    /\ out = << >> /\ result = None /\ rounds = 0 /\ committed = 0

-----------------------------------------------------------------------------
(* The public methods of Repl, up to the match on the InputResult *)

\* Repl::eval: parse_program(input, false, None)
Eval ==
    /\ api = "none" /\ pc = "idle" /\ rounds < MaxRounds
    /\ \E r \in EvalResults : cur' = Some(r)
    /\ api' = "eval" /\ pc' = "match" /\ rounds' = rounds + 1
    /\ out' = << >> /\ result' = None /\ pre' = None
    /\ UNCHANGED << committed, session, read_block, engine, more, inner >>

\* Repl::run_command: parse_command(cmd)
RunCommand ==
    /\ api = "none" /\ pc = "idle" /\ rounds < MaxRounds
    /\ \E r \in CommandResults : cur' = Some(r)
    /\ api' = "run_command" /\ pc' = "match" /\ rounds' = rounds + 1
    /\ out' = << >> /\ result' = None /\ pre' = None
    /\ UNCHANGED << committed, session, read_block, engine, more, inner >>

\* Repl::run, up to the loop
Run ==
    /\ api = "none" /\ pc = "idle"
    /\ api' = "run" /\ pc' = "run_loop" /\ more' = FALSE
    /\ out' = << >> /\ result' = None /\ cur' = None /\ pre' = None
    /\ UNCHANGED << committed, session, read_block, engine, inner, rounds >>

\* RunRead with the flag left set by the read
RunRead_keeps_flag ==
    /\ api = "run" /\ pc = "run_loop"
    /\ \E r \in ReadResults \cup { Eof } :
          /\ r # Eof => rounds < MaxRounds
          /\ cur' = Some(r)
          /\ rounds' = IF r = Eof THEN rounds ELSE rounds + 1
    /\ prompt' = IF read_block THEN BLOCK_PROMPT
                 ELSE IF more THEN MORE_PROMPT ELSE DEFAULT_PROMPT
    /\ read_block' = read_block
    /\ pc' = "match" /\ out' = << >>
    /\ UNCHANGED << committed, session, engine, api, more, input, body, prog, worker,
                    compiled, deps_left, loaded, fp, ran, analysis, result, pre >>

\* Repl::run: one read of the loop.  A set flag is cleared and the read is a
\* block read; otherwise it is a line read.
RunRead ==
    /\ api = "run" /\ pc = "run_loop"
    /\ \E r \in ReadResults \cup { Eof } :
          /\ r # Eof => rounds < MaxRounds
          /\ cur' = Some(r)
          /\ rounds' = IF r = Eof THEN rounds ELSE rounds + 1
    /\ prompt' = IF read_block THEN BLOCK_PROMPT
                 ELSE IF more THEN MORE_PROMPT ELSE DEFAULT_PROMPT
    /\ read_block' = FALSE
    /\ pc' = "match" /\ out' = << >>
    /\ UNCHANGED << committed, session, engine, api, more, input, body, prog, worker,
                    compiled, deps_left, loaded, fp, ran, analysis, result, pre >>

\* Repl::run_file: File::open.  pre holds the fields run_file was entered
\* with until the first read of the file.
RunFile ==
    /\ api = "none" /\ pc = "idle"
    /\ \E opened \in BOOLEAN :
          IF opened
          THEN /\ api' = "run_file" /\ pc' = "file_loop"
               /\ out' = << >> /\ result' = None
          ELSE /\ api' = "none" /\ pc' = "idle"
               /\ out' = << MsgOpenFailed >> /\ result' = Some(FALSE)
    /\ cur' = None /\ pre' = Some(Snapshot)
    /\ UNCHANGED << committed, session, read_block, engine, more, inner, rounds >>

\* FileBlocked with the flag cleared as the read of run clears it
FileBlocked_clears_flag ==
    /\ api = "run_file" /\ pc = "file_loop"
    /\ read_block
    /\ read_block' = FALSE
    /\ api' = "none" /\ pc' = "idle"
    /\ out' = << MsgBlockInFile >> /\ result' = Some(FALSE)
    /\ UNCHANGED << committed, session, engine, more, locals, rounds >>

\* Repl::run_file: the head of the loop, with a set flag
FileBlocked ==
    /\ api = "run_file" /\ pc = "file_loop"
    /\ read_block
    /\ api' = "none" /\ pc' = "idle"
    /\ out' = << MsgBlockInFile >> /\ result' = Some(FALSE)
    /\ UNCHANGED << committed, session, read_block, engine, more, locals, rounds >>

\* FileRead without the test of the flag at the head of the loop
FileRead_ignores_flag ==
    /\ api = "run_file" /\ pc = "file_loop"
    /\ \E r \in FileResults \cup { Eof } :
          /\ r # Eof => rounds < MaxRounds
          /\ cur' = Some(r)
          /\ rounds' = IF r = Eof THEN rounds ELSE rounds + 1
    /\ pc' = "match" /\ out' = << >>
    /\ UNCHANGED << committed, session, read_block, engine, api, more, inner, result, pre >>

\* Repl::run_file: one read of the loop
FileRead ==
    /\ api = "run_file" /\ pc = "file_loop"
    /\ ~read_block
    /\ \E r \in FileResults \cup { Eof } :
          /\ r # Eof => rounds < MaxRounds
          /\ cur' = Some(r)
          /\ rounds' = IF r = Eof THEN rounds ELSE rounds + 1
    /\ pc' = "match" /\ out' = << >>
    /\ UNCHANGED << committed, session, read_block, engine, api, more, inner, result, pre >>

-----------------------------------------------------------------------------
(* The match on the InputResult, and the handlers *)

Matching(tag) == pc = "match" /\ Unwrap(cur).tag = tag

\* A public method returns v to the host
ApiReturn(v) == api' = "none" /\ pc' = "idle" /\ result' = v

\* MatchProgram with an entry function named after the number of the round
MatchProgram_numbered_entry ==
    /\ Matching("Program")
    /\ api \in { "eval", "run", "run_file" }
    /\ LET i == Unwrap(cur).input
           stmts == rewrite_statements(i)
           inp == [ i EXCEPT !.statements = stmts ]
           text == run_body(RunName \o ToString(rounds), connect(stmts, NL))
       IN  /\ input' = Some(inp)
           /\ body' = Some(text)
           /\ prog' = Some(build_program(Some(inp), text))
    /\ more' = IF api = "run" THEN FALSE ELSE more
    /\ pre' = Some(Snapshot)
    /\ worker' = "compile" /\ pc' = "compile"
    /\ UNCHANGED << committed, session, read_block, engine, api, cur, prompt, compiled,
                    deps_left, loaded, fp, ran, analysis, out, result, rounds >>

\* Repl::handle_input up to the spawn of the compiler thread in compile_input:
\* the rewrite of the last statement, the entry function, build_program
MatchProgram ==
    /\ Matching("Program")
    /\ api \in { "eval", "run", "run_file" }
    /\ LET i == Unwrap(cur).input
           stmts == rewrite_statements(i)
           inp == [ i EXCEPT !.statements = stmts ]
           text == run_body(RunName, connect(stmts, NL))
       IN  /\ input' = Some(inp)
           /\ body' = Some(text)
           /\ prog' = Some(build_program(Some(inp), text))
    /\ more' = IF api = "run" THEN FALSE ELSE more
    /\ pre' = Some(Snapshot)
    /\ worker' = "compile" /\ pc' = "compile"
    /\ UNCHANGED << committed, session, read_block, engine, api, cur, prompt, compiled,
                    deps_left, loaded, fp, ran, analysis, out, result, rounds >>

\* MatchCommand with the block command setting the flag whatever its arguments
MatchCommand_block_ignores_args ==
    /\ Matching("Command")
    /\ api \in { "run", "run_command", "run_file" }
    /\ LET cmd == Unwrap(cur).name
           args == Unwrap(cur).args
           found == lookup_command(cmd)
       IN  IF found = Some(CmdBlock)
           THEN /\ read_block' = TRUE
                /\ out' = IF IsSome(args) THEN << MsgBlockArgs >> ELSE << >>
                /\ pc' = "ret"
                /\ UNCHANGED << body, prog, worker >>
           ELSE IF found = Some(CmdType)
           THEN IF IsSome(args)
                THEN /\ body' = Some(type_body(TypeName, Unwrap(args)))
                     /\ prog' = Some(build_program(None,
                                        type_body(TypeName, Unwrap(args))))
                     /\ worker' = "analysis" /\ pc' = "analysis"
                     /\ UNCHANGED << read_block, out >>
                ELSE /\ out' = << MsgTypeExpects >>
                     /\ pc' = "ret"
                     /\ UNCHANGED << read_block, body, prog, worker >>
           ELSE /\ out' = << MsgUnrecognized(cmd) >>
                /\ pc' = "ret"
                /\ UNCHANGED << read_block, body, prog, worker >>
    /\ pre' = Some(Snapshot)
    /\ UNCHANGED << committed, session, engine, api, more, cur, prompt, input, compiled,
                    deps_left, loaded, fp, ran, analysis, result, rounds >>

\* Repl::handle_command; for a type command with an argument, type_command
\* up to the spawn of the compiler thread in with_analysis
MatchCommand ==
    /\ Matching("Command")
    /\ api \in { "run", "run_command", "run_file" }
    /\ LET cmd == Unwrap(cur).name
           args == Unwrap(cur).args
           found == lookup_command(cmd)
       IN  IF found = Some(CmdBlock)
           THEN /\ read_block' = IF IsSome(args) THEN read_block ELSE TRUE
                /\ out' = IF IsSome(args) THEN << MsgBlockArgs >> ELSE << >>
                /\ pc' = "ret"
                /\ UNCHANGED << body, prog, worker >>
           ELSE IF found = Some(CmdType)
           THEN IF IsSome(args)
                THEN /\ body' = Some(type_body(TypeName, Unwrap(args)))
                     /\ prog' = Some(build_program(None,
                                        type_body(TypeName, Unwrap(args))))
                     /\ worker' = "analysis" /\ pc' = "analysis"
                     /\ UNCHANGED << read_block, out >>
                ELSE /\ out' = << MsgTypeExpects >>
                     /\ pc' = "ret"
                     /\ UNCHANGED << read_block, body, prog, worker >>
           ELSE /\ out' = << MsgUnrecognized(cmd) >>
                /\ pc' = "ret"
                /\ UNCHANGED << read_block, body, prog, worker >>
    /\ pre' = Some(Snapshot)
    /\ UNCHANGED << committed, session, engine, api, more, cur, prompt, input, compiled,
                    deps_left, loaded, fp, ran, analysis, result, rounds >>

\* The arms that do nothing: the wildcard arm of eval and of run_command,
\* the Empty arm of run
MatchIgnored ==
    /\ pc = "match"
    /\ \/ api = "eval" /\ Unwrap(cur).tag # "Program"
       \/ api = "run_command" /\ Unwrap(cur) = InputError(None)
       \/ api = "run" /\ Unwrap(cur).tag = "Empty"
    /\ pre' = Some(Snapshot)
    /\ pc' = "ret"
    /\ UNCHANGED << committed, session, read_block, engine, api, more, cur, prompt, input,
                    body, prog, worker, compiled, deps_left, loaded, fp, ran, analysis, out,
                    result, rounds >>

\* The More arm of run
MatchMore ==
    /\ Matching("More")
    /\ api = "run"
    /\ more' = TRUE
    /\ pre' = Some(Snapshot)
    /\ pc' = "ret"
    /\ UNCHANGED << committed, session, read_block, engine, api, cur, prompt, input, body,
                    prog, worker, compiled, deps_left, loaded, fp, ran, analysis, out,
                    result, rounds >>

\* The InputError arms of run and of run_command: the message is printed
MatchError ==
    /\ Matching("InputError")
    /\ \/ api = "run"
       \/ api = "run_command" /\ IsSome(Unwrap(cur).err)
    /\ out' = IF IsSome(Unwrap(cur).err) THEN << Unwrap(Unwrap(cur).err) >> ELSE << >>
    /\ more' = IF api = "run" THEN FALSE ELSE more
    /\ pre' = Some(Snapshot)
    /\ pc' = "ret"
    /\ UNCHANGED << committed, session, read_block, engine, api, cur, prompt, input, body,
                    prog, worker, compiled, deps_left, loaded, fp, ran, analysis, result,
                    rounds >>

\* The InputError arms of run_file: the file run ends with false
MatchFileError ==
    /\ Matching("InputError")
    /\ api = "run_file"
    /\ out' = IF IsSome(Unwrap(cur).err)
              THEN << MsgFileError(Unwrap(Unwrap(cur).err)) >> ELSE << >>
    /\ ApiReturn(Some(FALSE))
    /\ pre' = Some(Snapshot)
    /\ UNCHANGED << committed, session, read_block, engine, more, cur, inner, rounds >>

\* The Eof arms: run leaves its loop (a terminal gets a newline), run_file
\* returns true
MatchEof ==
    /\ Matching("Eof")
    /\ \/ /\ api = "run"
          /\ \E tty \in BOOLEAN : out' = IF tty THEN << << >> >> ELSE << >>
          /\ ApiReturn(None)
       \/ /\ api = "run_file"
          /\ out' = << >>
          /\ ApiReturn(Some(TRUE))
    /\ pre' = Some(Snapshot)
    /\ UNCHANGED << committed, session, read_block, engine, more, cur, inner, rounds >>

-----------------------------------------------------------------------------
(* ExecutionEngine::add_module, as handle_input runs it *)

\* CompileJoin with a panic of the compiler thread taking the caller down
CompileJoin_failure_is_fatal ==
    /\ pc = "compile"
    /\ \E ok \in BOOLEAN, deps \in DepChoices :
          IF ok
          THEN /\ compiled' = Some([ llmod |-> Module(FreshId, Unwrap(prog)),
                                     deps |-> deps ])
               /\ deps_left' = deps
               /\ pc' = "load_deps"
          ELSE /\ compiled' = None
               /\ deps_left' = << >>
               /\ pc' = "fatal"
    /\ worker' = "none"
    /\ UNCHANGED << committed, session, read_block, engine, api, more, cur, prompt, input,
                    body, prog, loaded, fp, ran, analysis, out, result, pre, rounds >>

\* CompileJoin with handle_input going on to its commit after a failed compile
CompileJoin_commits_on_failure ==
    /\ pc = "compile"
    /\ \E ok \in BOOLEAN, deps \in DepChoices :
          IF ok
          THEN /\ compiled' = Some([ llmod |-> Module(FreshId, Unwrap(prog)),
                                     deps |-> deps ])
               /\ deps_left' = deps
               /\ pc' = "load_deps"
          ELSE /\ compiled' = None
               /\ deps_left' = << >>
               /\ pc' = "commit"
    /\ worker' = "none"
    /\ UNCHANGED << committed, session, read_block, engine, api, more, cur, prompt, input,
                    body, prog, loaded, fp, ran, analysis, out, result, pre, rounds >>

\* compile_input: the compiler thread ends and is joined.  A failed compile
\* makes add_module, and with it handle_input, return.
CompileJoin ==
    /\ pc = "compile"
    /\ \E ok \in BOOLEAN, deps \in DepChoices :
          IF ok
          THEN /\ compiled' = Some([ llmod |-> Module(FreshId, Unwrap(prog)),
                                     deps |-> deps ])
               /\ deps_left' = deps
               /\ pc' = "load_deps"
          ELSE /\ compiled' = None
               /\ deps_left' = << >>
               /\ pc' = "ret"
    /\ worker' = "none"
    /\ UNCHANGED << committed, session, read_block, engine, api, more, cur, prompt, input,
                    body, prog, loaded, fp, ran, analysis, out, result, pre, rounds >>

\* LoadDep going on to the next dependency after a failed load
LoadDep_skips_failure ==
    /\ pc = "load_deps"
    /\ deps_left # << >>
    /\ \E ok \in BOOLEAN :
          /\ loaded' = IF ok THEN Append(loaded, Head(deps_left)) ELSE loaded
          /\ deps_left' = Tail(deps_left)
          /\ pc' = "load_deps"
    /\ UNCHANGED << committed, session, read_block, engine, api, more, cur, prompt, input,
                    body, prog, worker, compiled, fp, ran, analysis, out, result, pre, rounds >>

\* load_deps: one LLVMRustLoadDynamicLibrary; a failure panics
LoadDep ==
    /\ pc = "load_deps"
    /\ deps_left # << >>
    /\ \E ok \in BOOLEAN :
          IF ok
          THEN /\ loaded' = Append(loaded, Head(deps_left))
               /\ deps_left' = Tail(deps_left)
               /\ pc' = "load_deps"
          ELSE /\ pc' = "fatal"
               /\ UNCHANGED << loaded, deps_left >>
    /\ UNCHANGED << committed, session, read_block, engine, api, more, cur, prompt, input,
                    body, prog, worker, compiled, fp, ran, analysis, out, result, pre, rounds >>

\* PushModule with the module put ahead of the registered ones
PushModule_in_front ==
    /\ pc = "load_deps"
    /\ deps_left = << >>
    /\ modules' = << Unwrap(compiled).llmod >> \o modules
    /\ pc' = "added"
    /\ UNCHANGED << committed, session, read_block, lib_paths, sysroot, api, more, cur, prompt,
                    input, body, prog, worker, compiled, deps_left, loaded, fp,
                    ran, analysis, out, result, pre, rounds >>

\* self.modules.push(llmod), LLVMExecutionEngineAddModule, Some(llmod)
PushModule ==
    /\ pc = "load_deps"
    /\ deps_left = << >>
    /\ modules' = Append(modules, Unwrap(compiled).llmod)
    /\ pc' = "added"
    /\ UNCHANGED << committed, session, read_block, lib_paths, sysroot, api, more, cur, prompt,
                    input, body, prog, worker, compiled, deps_left, loaded, fp,
                    ran, analysis, out, result, pre, rounds >>

-----------------------------------------------------------------------------
(* Repl::handle_input after add_module returned a module *)

\* get_function(name).unwrap(), transmute, f(): the entry function returns
\* after its body ended or after unwind::try caught a panic of it
CallEntry ==
    /\ pc = "added"
    /\ api \in { "eval", "run", "run_file" }
    /\ fp' = get_function(RunName)
    /\ IF IsSome(get_function(RunName))
       THEN /\ \E how \in { "normal", "fault" } : ran' = how
            /\ pc' = "commit"
       ELSE /\ ran' = ran
            /\ pc' = "fatal"
    /\ UNCHANGED << committed, session, read_block, engine, api, more, cur, prompt, input,
                    body, prog, worker, compiled, deps_left, loaded, analysis,
                    out, result, pre, rounds >>

\* Commit with the view-items kept sorted as build_program emits them
Commit_sorted ==
    /\ pc = "commit"
    /\ attributes' = attributes \o Unwrap(input).attributes
    /\ view_items' = sort_by(view_items \o Unwrap(input).view_items)
    /\ items' = items \o Unwrap(input).items
    /\ pc' = "ret"
    /\ committed' = committed + 1
    /\ UNCHANGED << read_block, engine, api, more, cur, prompt, input, body, prog,
                    worker, compiled, deps_left, loaded, fp, ran, analysis, out,
                    result, pre, rounds >>

\* Commit skipped when the entry function faulted
Commit_unless_fault ==
    /\ pc = "commit"
    /\ IF ran = "fault"
       THEN UNCHANGED session
       ELSE /\ attributes' = attributes \o Unwrap(input).attributes
            /\ view_items' = view_items \o Unwrap(input).view_items
            /\ items' = items \o Unwrap(input).items
    /\ pc' = "ret"
    /\ committed' = IF ran = "fault" THEN committed ELSE committed + 1
    /\ UNCHANGED << read_block, engine, api, more, cur, prompt, input, body, prog,
                    worker, compiled, deps_left, loaded, fp, ran, analysis, out,
                    result, pre, rounds >>

\* Commit that keeps only the items of the round
Commit_replaces_items ==
    /\ pc = "commit"
    /\ attributes' = attributes \o Unwrap(input).attributes
    /\ view_items' = view_items \o Unwrap(input).view_items
    /\ items' = Unwrap(input).items
    /\ pc' = "ret"
    /\ committed' = committed + 1
    /\ UNCHANGED << read_block, engine, api, more, cur, prompt, input, body, prog,
                    worker, compiled, deps_left, loaded, fp, ran, analysis, out,
                    result, pre, rounds >>

\* Commit that removes the module of the round from the engine once it has
\* run, as remove_module would
Commit_removes_module ==
    /\ pc = "commit"
    /\ attributes' = attributes \o Unwrap(input).attributes
    /\ view_items' = view_items \o Unwrap(input).view_items
    /\ items' = items \o Unwrap(input).items
    /\ modules' = SubSeq(modules, 1, Len(modules) - 1)
    /\ pc' = "ret"
    /\ committed' = committed + 1
    /\ UNCHANGED << read_block, lib_paths, sysroot, api, more, cur, prompt, input,
                    body, prog, worker, compiled, deps_left, loaded, fp, ran,
                    analysis, out, result, pre, rounds >>

\* self.attributes.extend(..), self.view_items.extend(..), self.items.extend(..)
Commit ==
    /\ pc = "commit"
    /\ attributes' = attributes \o Unwrap(input).attributes
    /\ view_items' = view_items \o Unwrap(input).view_items
    /\ items' = items \o Unwrap(input).items
    /\ pc' = "ret"
    /\ committed' = committed + 1
    /\ UNCHANGED << read_block, engine, api, more, cur, prompt, input, body, prog,
                    worker, compiled, deps_left, loaded, fp, ran, analysis, out, result,
                    pre, rounds >>

-----------------------------------------------------------------------------
(* Repl::type_command after the spawn: with_analysis and expr_type *)

\* AnalysisJoin with the probe registered as a module when it compiled, as
\* add_module would do
AnalysisJoin_registers_module ==
    /\ pc = "analysis"
    /\ \E how \in { "error", "no_type", "typed" } :
          /\ analysis' = how
          /\ out' = IF how = "typed"
                    THEN << MsgType(Unwrap(Unwrap(cur).args), TypeInt) >>
                    ELSE << >>
          /\ modules' = IF how = "error" THEN modules
                        ELSE Append(modules, Module(FreshId, Unwrap(prog)))
    /\ worker' = "none"
    /\ pc' = "ret"
    /\ UNCHANGED << committed, session, read_block, lib_paths, sysroot, api, more, cur, prompt,
                    input, body, prog, compiled, deps_left, loaded, fp, ran, result,
                    pre, rounds >>

\* The compiler thread ends and is joined.  "error": the compile panicked;
\* "no_type": the closure of expr_type panicked with "no type found";
\* "typed": the closure returned the type.  Only the last gives Some.  The
\* thread is built with stderr(box NullWriter), so the message of a panic
\* in it is written nowhere, and type_command prints only on Some.
AnalysisJoin ==
    /\ pc = "analysis"
    /\ \E how \in { "error", "no_type", "typed" } :
          /\ analysis' = how
          /\ out' = IF how = "typed"
                    THEN << MsgType(Unwrap(Unwrap(cur).args), TypeInt) >>
                    ELSE << >>
    /\ worker' = "none"
    /\ pc' = "ret"
    /\ UNCHANGED << committed, session, read_block, engine, api, more, cur, prompt, input,
                    body, prog, compiled, deps_left, loaded, fp, ran, result,
                    pre, rounds >>

-----------------------------------------------------------------------------
(* Back in the public method *)

\* Return with run ending like eval and run_command after its first round
Return_ends_run ==
    /\ pc = "ret"
    /\ api \in { "eval", "run_command", "run", "run_file" }
    /\ IF api \in { "eval", "run_command", "run" }
       THEN ApiReturn(None)
       ELSE /\ pc' = "file_loop"
            /\ UNCHANGED << api, result >>
    /\ ClearLocals
    /\ UNCHANGED << committed, session, read_block, engine, more, out, rounds >>

\* The handler returned: eval and run_command return, run and run_file go
\* on with their loop
Return ==
    /\ pc = "ret"
    /\ api \in { "eval", "run_command", "run", "run_file" }
    /\ IF api \in { "eval", "run_command" }
       THEN ApiReturn(None)
       ELSE /\ pc' = IF api = "run" THEN "run_loop" ELSE "file_loop"
            /\ UNCHANGED << api, result >>
    /\ ClearLocals
    /\ UNCHANGED << committed, session, read_block, engine, more, out, rounds >>

Next ==
    \/ Eval \/ RunCommand \/ Run \/ RunRead \/ RunFile \/ FileBlocked \/ FileRead
    \/ MatchProgram \/ MatchCommand \/ MatchIgnored \/ MatchMore \/ MatchError
    \/ MatchFileError \/ MatchEof
    \/ CompileJoin \/ LoadDep \/ PushModule \/ CallEntry \/ Commit
    \/ AnalysisJoin \/ Return

Spec == Init /\ [][Next]_vars

-----------------------------------------------------------------------------
(* Properties of the rounds of a Repl *)

IsPrefix(s, t) == Len(s) <= Len(t) /\ SubSeq(t, 1, Len(s)) = s

\* The handling of the InputResult cur has ended; pre holds the fields of
\* the Repl and of the engine from before it
RoundOver == pc \in { "ret", "idle" } /\ IsSome(cur) /\ IsSome(pre)

\* The round was a Program whose compile failed / succeeded
ProgramRound == IsSome(cur) /\ Unwrap(cur).tag = "Program" /\ IsSome(input)
CompileFailed == ProgramRound /\ pc = "ret" /\ compiled = None
CompileSucceeded == ProgramRound /\ IsSome(compiled)

SessionIs(a, v, i) == attributes = a /\ view_items = v /\ items = i

\* C1: a round that does not parse to a Program (ParseError, NeedMoreInput,
\* Empty) or whose program fails to compile ends with the attributes, the
\* view-items, the items and the module sequence it started with.
C1_FailedRoundChangesNothing ==
    (RoundOver /\ (Unwrap(cur).tag \in { "InputError", "More", "Empty" }
                   \/ CompileFailed))
    => /\ SessionIs(Unwrap(pre).attributes, Unwrap(pre).view_items, Unwrap(pre).items)
       /\ modules = Unwrap(pre).modules

\* A compile failure of a round that brought declarations to a session that
\* already held some
C1_Witness ==
    /\ RoundOver /\ CompileFailed
    /\ Unwrap(cur).input.items # << >>
    /\ Unwrap(pre).items # << >>
    /\ Len(Unwrap(pre).modules) > 1

\* C2: a Program round whose source compiled ends with each session sequence
\* equal to its value before the round followed by the entries of the round
\* in input order (the view-items unsorted); a round without declarations
\* leaves the three lengths as they were.
C2_CommitAppendsInOrder ==
    (pc = "ret" /\ CompileSucceeded)
    => LET i == Unwrap(cur).input
           p == Unwrap(pre)
       IN  /\ SessionIs(p.attributes \o i.attributes,
                        p.view_items \o i.view_items,
                        p.items \o i.items)
           /\ (i.attributes = << >> /\ i.view_items = << >> /\ i.items = << >>)
              => /\ Len(attributes) = Len(p.attributes)
                 /\ Len(view_items) = Len(p.view_items)
                 /\ Len(items) = Len(p.items)

\* The commit of a round whose view-items are not in sorted order, on a
\* session that already holds a view-item
C2_Witness ==
    /\ pc = "ret" /\ CompileSucceeded
    /\ Unwrap(cur).input.view_items = << ViewUseMem, ViewExternLibc >>
    /\ Unwrap(pre).view_items # << >>
    /\ Len(view_items) = Len(Unwrap(pre).view_items) + 2

\* C3: the commit is gated by the compile alone: a round whose program
\* compiled ends with its declarations appended and its module registered
\* last, whether the entry function ended normally or its fault was caught.
C3_CommitGatedByCompileAlone ==
    (pc = "ret" /\ CompileSucceeded)
    => /\ ran \in { "normal", "fault" }
       /\ attributes = Unwrap(pre).attributes \o Unwrap(input).attributes
       /\ view_items = Unwrap(pre).view_items \o Unwrap(input).view_items
       /\ items = Unwrap(pre).items \o Unwrap(input).items
       /\ modules = Append(Unwrap(pre).modules, Unwrap(compiled).llmod)

\* A round with an item whose entry function faulted, after its commit
C3_Witness ==
    /\ pc = "ret" /\ CompileSucceeded
    /\ ran = "fault"
    /\ Unwrap(input).items # << >>
    /\ items = Unwrap(pre).items \o Unwrap(input).items

\* C4: the session starts with three empty sequences; in every step each
\* sequence before the step is a prefix of the sequence after it; and a
\* sequence changes only in the commit of a round whose program compiled.
C4_SessionAppendOnly ==
    /\ SessionIs(<< >>, << >>, << >>)
    /\ [][ /\ IsPrefix(attributes, attributes')
           /\ IsPrefix(view_items, view_items')
           /\ IsPrefix(items, items')
           /\ (session' # session)
              => (pc = "commit" /\ pc' = "ret" /\ CompileSucceeded) ]_vars

\* A session that grew in two rounds
C4_Witness ==
    /\ pc = "ret" /\ CompileSucceeded
    /\ Unwrap(pre).items # << >>
    /\ Len(items) > Len(Unwrap(pre).items)

-----------------------------------------------------------------------------
(* The ExecutionEngine used on its own, as tests/exec.rs uses it *)

\* ExecutionEngine::new_with_input(code, libs)
InitEngine ==
    /\ attributes = << >> /\ view_items = << >> /\ items = << >>
    /\ read_block = FALSE
    /\ \E code \in EngineSources : modules = << Module(1, code) >>
    /\ lib_paths \in LibChoices
    /\ sysroot = Sysroot
    /\ api = "engine" /\ pc = "idle" /\ more = FALSE
    /\ NoLocals
    /\ out = << >> /\ result = None /\ rounds = 0 /\ committed = 0

\* ExecutionEngine::add_module(input), up to the spawn of the compiler thread
EngAddModule ==
    /\ api = "engine" /\ pc = "idle" /\ rounds < MaxRounds
    /\ \E code \in EngineSources : prog' = Some(code)
    /\ cur' = Some([ tag |-> "add_module" ])
    /\ pre' = Some(Snapshot)
    /\ worker' = "compile" /\ pc' = "compile"
    /\ compiled' = None /\ deps_left' = << >> /\ loaded' = << >> /\ fp' = None
    /\ result' = None /\ rounds' = rounds + 1
    /\ UNCHANGED << committed, session, read_block, engine, api, more, prompt, input, body,
                    ran, analysis, out >>

\* ExecutionEngine::add_module returns: None after a failed compile, the
\* module after the push
EngAddReturn ==
    /\ api = "engine" /\ pc \in { "ret", "added" }
    /\ result' = IF pc = "added" THEN Some(Unwrap(compiled).llmod) ELSE None
    /\ pc' = "idle"
    /\ UNCHANGED << committed, session, read_block, engine, api, more, locals, out, rounds >>

\* ExecutionEngine::get_function(name)
EngGetFunction ==
    /\ api = "engine" /\ pc = "idle"
    /\ \E name \in LookupNames :
          /\ cur' = Some([ tag |-> "get_function", name |-> name ])
          /\ fp' = get_function(name)
    /\ pre' = Some(Snapshot)
    /\ prog' = None /\ compiled' = None /\ loaded' = << >> /\ result' = None
    /\ UNCHANGED << committed, session, read_block, engine, api, pc, more, prompt, input, body,
                    worker, deps_left, ran, analysis, out, rounds >>

\* ExecutionEngine::get_global(name)
EngGetGlobal ==
    /\ api = "engine" /\ pc = "idle"
    /\ \E name \in LookupNames :
          /\ cur' = Some([ tag |-> "get_global", name |-> name ])
          /\ fp' = get_global(name)
    /\ pre' = Some(Snapshot)
    /\ prog' = None /\ compiled' = None /\ loaded' = << >> /\ result' = None
    /\ UNCHANGED << committed, session, read_block, engine, api, pc, more, prompt, input, body,
                    worker, deps_left, ran, analysis, out, rounds >>

\* modules.iter().position(|p| *p == llmod): the first place that holds the
\* module
position(ms, llmod) ==
    LET held == { i \in 1..Len(ms) : ms[i] = llmod }
    IN  IF held = {} THEN None
        ELSE Some(CHOOSE i \in held : \A j \in held : i <= j)

\* Vec::remove(i): the sequence without its element i
remove(ms, i) == SubSeq(ms, 1, i - 1) \o SubSeq(ms, i + 1, Len(ms))

\* A module that belongs to no engine of the model
ForeignModule == Module(0, SrcHello)

\* The module references a caller can pass: the modules the engine holds,
\* the module the last add_module returned, and a module of another origin
ModuleRefs == Range(modules) \cup Range(result) \cup { ForeignModule }

\* ExecutionEngine::remove_module(llmod): the module leaves the sequence at
\* the first place that holds it; a module the engine does not hold is a
\* panic that leaves the sequence as it was
EngRemoveModule ==
    /\ api = "engine" /\ pc = "idle"
    /\ \E llmod \in ModuleRefs :
          /\ cur' = Some([ tag |-> "remove_module", llmod |-> llmod ])
          /\ IF IsSome(position(modules, llmod))
             THEN /\ modules' = remove(modules, Unwrap(position(modules, llmod)))
                  /\ pc' = pc
             ELSE /\ modules' = modules
                  /\ pc' = "fatal"
    /\ pre' = Some(Snapshot)
    /\ prog' = None /\ compiled' = None /\ loaded' = << >> /\ fp' = None
    /\ result' = None
    /\ UNCHANGED << committed, session, read_block, lib_paths, sysroot, api, more, prompt,
                    input, body, worker, deps_left, ran, analysis, out, rounds >>

NextEngine ==
    \/ EngAddModule \/ CompileJoin \/ LoadDep \/ PushModule \/ EngAddReturn
    \/ EngGetFunction \/ EngGetGlobal \/ EngRemoveModule

SpecEngine == InitEngine /\ [][NextEngine]_vars

-----------------------------------------------------------------------------
(* Properties of the engine *)

Max(S) == CHOOSE x \in S : \A y \in S : y <= x

\* The modules that hold the function / the global of that name
WithFunction(name) == { i \in 1..Len(modules) : name \in modules[i].fns }
WithGlobal(name) == { i \in 1..Len(modules) : name \in modules[i].globals }

\* The address of the name in the module registered last among those of S
LatestOf(S, name) ==
    IF S = { } THEN None ELSE Some(<< modules[Max(S)].id, name >>)

LookedUp(tag) == api = "engine" /\ pc = "idle" /\ IsSome(cur) /\ Unwrap(cur).tag = tag

\* C5: get_function and get_global return the address of the name in the
\* module registered last among those that hold it, also when older modules
\* hold it too, and none exactly when no registered module (the first one
\* included) holds it.
C5_LookupFindsLatest ==
    /\ LookedUp("get_function")
       => /\ fp = LatestOf(WithFunction(Unwrap(cur).name), Unwrap(cur).name)
          /\ (fp = None) <=> (WithFunction(Unwrap(cur).name) = { })
    /\ LookedUp("get_global")
       => /\ fp = LatestOf(WithGlobal(Unwrap(cur).name), Unwrap(cur).name)
          /\ (fp = None) <=> (WithGlobal(Unwrap(cur).name) = { })

\* A lookup of a function that two modules hold and the last module does not
C5_Witness ==
    /\ LookedUp("get_function")
    /\ Cardinality(WithFunction(Unwrap(cur).name)) >= 2
    /\ Len(modules) \notin WithFunction(Unwrap(cur).name)
    /\ IsSome(fp)

\* C6: add_module fails or appends: after a failed compile it returns none
\* and leaves the modules, the search paths and the sysroot as they were;
\* after a successful one it returns the new module, and the modules are
\* the former ones with that module appended.
C6_AddModuleFailsOrAppends ==
    LookedUp("add_module")
    => IF compiled = None
       THEN /\ result = None
            /\ modules = Unwrap(pre).modules
            /\ lib_paths = Unwrap(pre).lib_paths
            /\ sysroot = Unwrap(pre).sysroot
       ELSE /\ result = Some(Unwrap(compiled).llmod)
            /\ modules = Append(Unwrap(pre).modules, Unwrap(result))
            /\ Unwrap(result) = Module(Unwrap(result).id, Unwrap(prog))
            /\ \A i \in 1..Len(Unwrap(pre).modules) :
                  Unwrap(pre).modules[i].id # Unwrap(result).id

\* An add_module that returned its module to an engine that held two
C6_Witness ==
    /\ LookedUp("add_module")
    /\ IsSome(result)
    /\ Len(Unwrap(pre).modules) >= 2
    /\ Len(modules) = Len(Unwrap(pre).modules) + 1

-----------------------------------------------------------------------------
(* Repl::build_program on its own, on any session *)

\* A Repl whose session holds the declarations of earlier rounds
InitBuild ==
    /\ attributes \in BuildAttributes
    /\ view_items \in BSeq(ViewChoices, MaxViewItems)
    /\ items \in BuildItems
    /\ read_block = FALSE
    /\ modules = << Module(1, << >>) >>
    /\ lib_paths = << >>
    /\ sysroot = Sysroot
    /\ api = "build" /\ pc = "idle" /\ more = FALSE
    /\ NoLocals
    /\ out = << >> /\ result = None /\ rounds = 0 /\ committed = 0

\* build_program(Some(&input), program), the call of handle_input
BuildWithInput ==
    /\ api = "build" /\ pc = "idle"
    /\ pc' = "built"
    /\ \E inp \in BuildInputs :
          LET text == run_body(RunName, connect(inp.statements, NL))
          IN  /\ input' = Some(inp)
              /\ body' = Some(text)
              /\ prog' = Some(build_program(Some(inp), text))
    /\ UNCHANGED << committed, session, read_block, engine, api, more, cur, prompt, worker,
                    compiled, deps_left, loaded, fp, ran, analysis, out, result,
                    pre, rounds >>

\* build_program(None, program), the call of type_command
BuildWithoutInput ==
    /\ api = "build" /\ pc = "idle"
    /\ pc' = "built"
    /\ LET text == type_body(TypeName, StmtExpr)
       IN  /\ input' = None
           /\ body' = Some(text)
           /\ prog' = Some(build_program(None, text))
    /\ UNCHANGED << committed, session, read_block, engine, api, more, cur, prompt, worker,
                    compiled, deps_left, loaded, fp, ran, analysis, out, result,
                    pre, rounds >>

NextBuild == BuildWithInput \/ BuildWithoutInput

SpecBuild == InitBuild /\ [][NextBuild]_vars

-----------------------------------------------------------------------------
(* Properties of the synthesized program *)

\* The lines of a text: its parts between the newlines
RECURSIVE Lines(_)
Lines(t) ==
    IF \A k \in 1..Len(t) : t[k] # "\n" THEN << t >>
    ELSE LET k == CHOOSE j \in 1..Len(t) :
                     t[j] = "\n" /\ \A h \in 1..(j - 1) : t[h] # "\n"
         IN  << SubSeq(t, 1, k - 1) >> \o Lines(SubSeq(t, k + 1, Len(t)))

\* The subsequence of the elements of s that are in S
RECURSIVE Only(_, _)
Only(s, S) ==
    IF s = << >> THEN << >>
    ELSE IF s[1] \in S THEN << s[1] >> \o Only(Tail(s), S) ELSE Only(Tail(s), S)

AllViews == { ViewExternLibc, ViewExternTime, ViewUseMem, ViewUseOs }
CrateTexts == { v[2] : v \in { w \in AllViews : w[1] = "ExternCrate" } }
UseTexts == { v[2] : v \in { w \in AllViews : w[1] = "Use" } }
AttrTexts == { AttrFeature }
ItemTexts == { ItemAdd, ItemHello, ItemFoo, ItemGetFoo }

\* The declarations build_program was given: those of the session, then
\* those of the input if there is one
GivenAttributes == attributes \o (IF IsSome(input) THEN Unwrap(input).attributes ELSE << >>)
GivenViews == view_items \o (IF IsSome(input) THEN Unwrap(input).view_items ELSE << >>)
GivenItems == items \o (IF IsSome(input) THEN Unwrap(input).items ELSE << >>)

\* The view-item lines of the program, in the order of the text
EmittedViews == Only(Lines(Unwrap(prog)), CrateTexts \cup UseTexts)

\* C7: the view-items build_program emits are a permutation of the
\* view-items of the session followed by those of the input, with every
\* crate-import ahead of every other import and, per tag, in the order of
\* that concatenation.
C7_ViewItemsStablySorted ==
    IsSome(prog)
    => /\ Len(EmittedViews) = Len(GivenViews)
       /\ Only(EmittedViews, CrateTexts) = Only(Texts(GivenViews), CrateTexts)
       /\ Only(EmittedViews, UseTexts) = Only(Texts(GivenViews), UseTexts)
       /\ \A i, j \in 1..Len(EmittedViews) :
             (EmittedViews[i] \in UseTexts /\ EmittedViews[j] \in CrateTexts) => j < i

\* A program built from a session and an input that each hold an import
\* ahead of a crate-import, with two imports of each tag in all
C7_Witness ==
    /\ IsSome(prog) /\ IsSome(input)
    /\ view_items = << ViewUseOs, ViewExternTime >>
    /\ Unwrap(input).view_items = << ViewUseMem, ViewExternLibc >>
    /\ EmittedViews = << ViewExternTime[2], ViewExternLibc[2], ViewUseOs[2], ViewUseMem[2] >>

\* The program without the trailing body and the newline after it
Preamble == SubSeq(Unwrap(prog), 1, Len(Unwrap(prog)) - Len(Unwrap(body)) - 1)

\* Where the lines of the set S are among the lines ls
At(ls, S) == { k \in 1..Len(ls) : ls[k] \in S }
Before(K, M) == \A k \in K, m \in M : k < m

\* C8: the program is the directive, then the attributes of the session and
\* of the input, then the sorted view-items, then the items of the session
\* and of the input, then the trailing body; so the program of a round has
\* every committed item, in commit order, ahead of the items of the round.
\* The statements and last_expr of the input change nothing in it.
C8_ProgramLayout ==
    (IsSome(prog) /\ pc \in { "compile", "analysis" })
    => LET ls == Lines(Preamble)
       IN  /\ Unwrap(prog) = Preamble \o Unwrap(body) \o NL
           /\ ls[1] = AllowDirective
           /\ At(ls, { AllowDirective }) = { 1 }
           /\ Only(ls, AttrTexts) = GivenAttributes
           /\ Only(ls, CrateTexts \cup UseTexts) = Texts(sort_by(GivenViews))
           /\ Only(ls, ItemTexts) = GivenItems
           /\ \A k \in 2..Len(ls) :
                 ls[k] \in AttrTexts \cup CrateTexts \cup UseTexts \cup ItemTexts \cup { << >> }
           /\ Before(At(ls, AttrTexts), At(ls, CrateTexts \cup UseTexts))
           /\ Before(At(ls, AttrTexts \cup CrateTexts \cup UseTexts), At(ls, ItemTexts))
           /\ IsSome(input)
              => \A st \in { << >>, << StmtExpr >> }, l \in BOOLEAN :
                    build_program(Some([ Unwrap(input) EXCEPT !.statements = st,
                                                              !.last_expr = l ]),
                                  Unwrap(body)) = Unwrap(prog)

\* The program of a round that brings an item to a session of two committed
\* items
C8_Witness ==
    /\ pc = "compile" /\ IsSome(input)
    /\ Len(items) >= 2
    /\ Unwrap(input).items # << >>
    /\ Unwrap(input).statements # << >>

-----------------------------------------------------------------------------
(* Properties of the commands *)

\* A type command whose analysis is running or has ended
TypeQuery == pc = "analysis" \/ analysis # "none"

\* C9: a type command, whether its analysis compiles or not, leaves the
\* three session sequences, the block flag and the module sequence as they
\* were, registers no module and calls no compiled code.
C9_TypeQueryChangesNothing ==
    TypeQuery
    => /\ SessionIs(Unwrap(pre).attributes, Unwrap(pre).view_items, Unwrap(pre).items)
       /\ read_block = Unwrap(pre).read_block
       /\ modules = Unwrap(pre).modules
       /\ compiled = None /\ fp = None /\ ran = "none"
       /\ worker \in { "none", "analysis" }

\* A type query that gave a type, on a session with an item and with the
\* block flag set
C9_Witness ==
    /\ pc = "ret" /\ analysis = "typed"
    /\ items # << >>
    /\ read_block
    /\ out = << MsgType(StmtExpr, TypeInt) >>

\* The entries of COMMANDS that start with the name
Matches(name) == { k \in 1..Len(COMMANDS) : starts_with(COMMANDS[k], name) }

\* handle_command has run on the Command cur
CommandHandled ==
    /\ pc \in { "ret", "analysis" } /\ IsSome(cur) /\ IsSome(pre)
    /\ Unwrap(cur).tag = "Command"

\* What the block command and the type command do with the arguments args
DispatchedAsBlock(args) ==
    IF IsSome(args) THEN out = << MsgBlockArgs >> /\ read_block = Unwrap(pre).read_block
    ELSE read_block /\ out = << >>
DispatchedAsType(args) ==
    IF IsSome(args) THEN TypeQuery
    ELSE out = << MsgTypeExpects >> /\ ~TypeQuery

\* C10: a name that is a prefix of exactly one entry of the table is
\* dispatched as that command; a name that is a prefix of no entry or of
\* more than one (the empty name) is reported as unrecognized and changes
\* neither the block flag nor the session.
C10_PrefixDispatch ==
    CommandHandled
    => LET name == Unwrap(cur).name
           args == Unwrap(cur).args
       IN  IF Cardinality(Matches(name)) = 1
           THEN IF Matches(name) = { 1 }
                THEN DispatchedAsBlock(args)
                ELSE DispatchedAsType(args)
           ELSE /\ out = << MsgUnrecognized(name) >>
                /\ read_block = Unwrap(pre).read_block
                /\ SessionIs(Unwrap(pre).attributes, Unwrap(pre).view_items,
                             Unwrap(pre).items)

\* A block command with arguments / a type command without one has been
\* handled
BlockWithArgs ==
    /\ CommandHandled
    /\ lookup_command(Unwrap(cur).name) = Some(CmdBlock)
    /\ IsSome(Unwrap(cur).args)
TypeWithoutArg ==
    /\ CommandHandled
    /\ lookup_command(Unwrap(cur).name) = Some(CmdType)
    /\ Unwrap(cur).args = None

\* C11: the validation of the arguments of a command changes no state: a
\* block command with arguments is rejected and does not set the block flag,
\* a type command without an argument is rejected and starts no analysis;
\* both leave the session and the module sequence as they were.
C11_RejectedCommandChangesNothing ==
    /\ BlockWithArgs
       => /\ out = << MsgBlockArgs >>
          /\ pc = "ret"
          /\ read_block = Unwrap(pre).read_block
          /\ SessionIs(Unwrap(pre).attributes, Unwrap(pre).view_items,
                       Unwrap(pre).items)
          /\ modules = Unwrap(pre).modules
    /\ TypeWithoutArg
       => /\ out = << MsgTypeExpects >>
          /\ pc = "ret"
          /\ worker = "none" /\ analysis = "none" /\ prog = None
          /\ read_block = Unwrap(pre).read_block
          /\ SessionIs(Unwrap(pre).attributes, Unwrap(pre).view_items,
                       Unwrap(pre).items)
          /\ modules = Unwrap(pre).modules

\* A block command with arguments rejected while the flag is not set, on a
\* session that holds an item
C11_Witness ==
    /\ BlockWithArgs
    /\ ~Unwrap(pre).read_block
    /\ items # << >>
    /\ out = << MsgBlockArgs >>

-----------------------------------------------------------------------------
(* Properties of the loops of run and of run_file *)

\* The step is a read of the loop of run / the read was a block read
ReadStep == api = "run" /\ pc = "run_loop" /\ pc' = "match"
BlockRead == api = "run" /\ pc = "match" /\ prompt = BLOCK_PROMPT

\* The step is handle_command accepting a block command
BlockAccepted ==
    /\ Matching("Command") /\ pc' = "ret"
    /\ lookup_command(Unwrap(cur).name) = Some(CmdBlock)
    /\ Unwrap(cur).args = None

\* C12: block mode is one-shot in the loop of run: a read is a block read
\* (block prompt) exactly when the flag is set, and the read clears the flag;
\* the flag gets set only by an accepted block command, which always sets
\* it.  So the read after an accepted block command is the one block read,
\* and no read is a block read without such a command before it.
C12_BlockModeOneShot ==
    /\ [](BlockRead => ~read_block)
    /\ [][ /\ ReadStep => /\ (prompt' = BLOCK_PROMPT) <=> read_block
                          /\ ~read_block'
           /\ (~read_block /\ read_block') => BlockAccepted
           /\ BlockAccepted => read_block'
           /\ (read_block /\ ~read_block') => ReadStep ]_vars

\* A block read in the loop of run that returned a Program, after the block
\* command that set the flag
C12_Witness ==
    /\ BlockRead
    /\ ~read_block
    /\ rounds >= 2
    /\ Unwrap(cur).tag = "Program"

\* run_file is executing and the flag is set
FileFlagged == api = "run_file" /\ read_block

\* C13: in run_file, once a block command without arguments has been
\* handled (the flag is set), no further round of the file is read or
\* evaluated and run_file returns false, whatever follows in the file.
C13_BlockEndsFileRun ==
    /\ [](FileFlagged
          => \/ pc = "file_loop"
             \/ /\ pc = "ret"
                /\ Unwrap(cur).tag = "Command"
                /\ lookup_command(Unwrap(cur).name) = Some(CmdBlock))
    /\ [][ FileFlagged
           => /\ rounds' = rounds
              /\ UNCHANGED << session, modules, read_block >>
              /\ pc' \in { "file_loop", "idle" }
              /\ (pc' = "idle")
                 => (api' = "none" /\ result' = Some(FALSE)
                     /\ out' = << MsgBlockInFile >>) ]_vars

\* A block command without arguments handled by run_file with the flag not
\* set before, after a committed round and with input left to read
C13_Witness ==
    /\ FileFlagged /\ pc = "ret"
    /\ Unwrap(cur) = Command(CmdBlock, None)
    /\ ~Unwrap(pre).read_block
    /\ items # << >>
    /\ rounds < MaxRounds

\* The step in which run_file returns
FileReturns == api = "run_file" /\ api' = "none"

\* C14: in run_file the first parse failure or compile failure of a round
\* stops the run: the next step after it is the return of false, no later
\* round is read; and run_file returns true only when no round failed.
C14_FileStopsAtFirstFailure ==
    [][ /\ (api = "run_file" /\ Matching("InputError"))
           => (FileReturns /\ result' = Some(FALSE))
        /\ (api = "run_file" /\ CompileFailed)
           => (FileReturns /\ result' = Some(FALSE) /\ rounds' = rounds) ]_vars

\* The parse-failure half of C14, which run_file keeps
C14_ParseFailureStopsFile ==
    [][ (api = "run_file" /\ Matching("InputError"))
        => (FileReturns /\ result' = Some(FALSE) /\ rounds' = rounds
            /\ UNCHANGED << session, modules >>) ]_vars

\* An arm of the match of run has ended with one of the outcomes the loop
\* recovers from
Recoverable ==
    /\ api = "run" /\ pc = "ret"
    /\ \/ Unwrap(cur).tag \in { "InputError", "Empty", "More", "Command" }
       \/ CompileFailed
       \/ CompileSucceeded /\ ran \in { "normal", "fault" }

\* C15: the loop of run survives every recoverable outcome and stops only
\* at the end of the input: after a parse error, a failed compile, a caught
\* fault, an unrecognized or malformed command, an Empty or a More result
\* the next step is back at the head of the loop, where the next read is
\* made; run returns exactly in the step that handles Eof.
C15_RunLoopStopsOnlyAtEof ==
    /\ []((api = "run" /\ pc = "ret") => Recoverable)
    /\ [][ /\ Recoverable => (api' = "run" /\ pc' = "run_loop")
           /\ (api = "run" /\ pc = "run_loop") => (api' = "run" /\ pc' = "match")
           /\ (api = "run" /\ api' # "run") <=> (api = "run" /\ Matching("Eof")) ]_vars

\* The loop of run reading on after a More result and a later round whose
\* entry function faulted
C15_Witness ==
    /\ Recoverable
    /\ CompileSucceeded /\ ran = "fault"
    /\ more = FALSE
    /\ prompt = MORE_PROMPT
    /\ rounds >= 2

-----------------------------------------------------------------------------
(* Properties of the entry function and of add_module inside a round *)

\* handle_input has resolved the entry function of the round
EntryResolved ==
    /\ api \in { "eval", "run", "run_file" }
    /\ ProgramRound
    /\ pc \in { "commit", "ret" } /\ IsSome(compiled)

\* The modules registered before the last one that hold an entry function
EarlierEntries == { k \in 1..(Len(modules) - 1) : RunName \in modules[k].fns }

\* C16: in a round whose program compiled, the entry function handle_input
\* resolves and calls is the one of the module registered in that round,
\* not the one of the module of an earlier round; and get_function never
\* returns none after a successful add_module (handle_input would panic on
\* the unwrap).
C16_EntryOfOwnModule ==
    /\ EntryResolved
       => /\ Len(modules) = Len(Unwrap(pre).modules) + 1
          /\ modules[Len(modules)] = Unwrap(compiled).llmod
          /\ fp = Some(PointerToGlobal(Unwrap(compiled).llmod, RunName))
          /\ \A k \in EarlierEntries :
                fp # Some(PointerToGlobal(modules[k], RunName))
    /\ (pc = "added" /\ api \in { "eval", "run", "run_file" })
       => RunName \in modules[Len(modules)].fns
    /\ (pc = "fatal") => (deps_left # << >> /\ fp = None /\ ran = "none")

\* The entry function of a round resolved while the modules of two earlier
\* rounds hold an entry function of the same name
C16_Witness ==
    /\ EntryResolved /\ pc = "commit"
    /\ Cardinality(EarlierEntries) >= 2
    /\ IsSome(fp)

\* The names of the entry functions the body of the round defines
EntryNames == NoMangle(Unwrap(body), "pub fn ")

\* handle_input has generated the entry function of a round
EntryGenerated ==
    /\ api \in { "eval", "run", "run_file" }
    /\ ProgramRound /\ pc = "compile"

\* C17 as stated: the name of the entry function of a round differs from
\* the name of the entry function of every earlier round of the session.
C17_EntryNameUnique ==
    EntryGenerated
    => \A k \in 1..Len(modules) : EntryNames \cap modules[k].fns = { }

\* C17 as amended: every Program round wraps its statements in an entry
\* function generated anew from the statements of the round, and the name of
\* that function is the same in every round: the one name _rusti_run, which
\* the module of every earlier committed round holds too.
C17_EntryNameFixed ==
    EntryGenerated
    => /\ EntryNames = { "_rusti_run" }
       /\ Only(Lines(Unwrap(body)), Range(Unwrap(input).statements))
             = Unwrap(input).statements
       /\ \A k \in 2..Len(modules) : "_rusti_run" \in modules[k].fns

\* The entry function of a third round, after two committed rounds
C17_Witness ==
    /\ EntryGenerated
    /\ Len(modules) >= 3
    /\ Unwrap(input).statements # << >>

\* A dependency of the module of the round failed to load
LoadFailed == pc = "fatal" /\ deps_left # << >>

\* The order of the loads and what a failed load leaves behind
DepsInOrder ==
    /\ (pc = "load_deps")
       => /\ loaded \o deps_left = Unwrap(compiled).deps
          /\ modules = Unwrap(pre).modules
          /\ fp = None /\ ran = "none"
    /\ (pc \in { "added", "commit" })
       => (loaded = Unwrap(compiled).deps /\ deps_left = << >>)
    /\ LoadFailed
       => /\ loaded \o deps_left = Unwrap(compiled).deps
          /\ modules = Unwrap(pre).modules
          /\ fp = None /\ ran = "none" /\ result = None
          /\ SessionIs(Unwrap(pre).attributes, Unwrap(pre).view_items,
                       Unwrap(pre).items)

\* C18: add_module loads every dependency of a compiled module, in the
\* order compile_input reported them (dependencies first), before it appends
\* the module and before the entry function is resolved or run; a
\* dependency that fails to load is fatal: no result is returned, the
\* module is not appended, the entry function is not run, the round does not
\* commit, and nothing runs after it.
C18_DepsLoadedBeforePush ==
    /\ []DepsInOrder
    /\ [][ /\ (modules' # modules)
              => /\ deps_left = << >> /\ loaded = Unwrap(compiled).deps
                 /\ fp = None /\ ran = "none"
                 /\ modules' = Append(modules, Unwrap(compiled).llmod)
           /\ (pc = "fatal") => FALSE ]_vars

\* The second dependency of a round with an item failed to load after the
\* first was loaded
C18_Witness ==
    /\ LoadFailed
    /\ Len(loaded) = 1 /\ Len(deps_left) = 1
    /\ ProgramRound /\ Unwrap(input).items # << >>

-----------------------------------------------------------------------------
(* Properties of the compiler threads *)

\* A compiler thread is alive exactly while its caller waits in the join
WorkerWaitedFor ==
    /\ worker \in { "none", "compile", "analysis" }
    /\ (worker = "compile") <=> (pc = "compile")
    /\ (worker = "analysis") <=> (pc = "analysis")

\* C19: a compile or an analysis runs on a thread spawned for that call and
\* joined before the call returns: a thread is alive only while its caller
\* waits for it, the step after its spawn is its join, no session sequence,
\* block flag or module sequence changes while it is alive, and a panic in
\* it gives the caller a none result (the round or the query ends, nothing
\* is printed by the query) instead of ending the Repl.
C19_WorkerJoinedBeforeAnyChange ==
    /\ []WorkerWaitedFor
    /\ [][ /\ (worker # "none")
              => /\ worker' = "none"
                 /\ UNCHANGED << session, read_block, modules >>
                 /\ api' = api /\ pc' # "fatal"
           /\ (worker = "none" /\ worker' # "none") => (pc \in { "match", "idle" })
           /\ (worker = "compile" /\ compiled' = None)
              => (pc' = "ret" /\ UNCHANGED << out, result >>)
           /\ (worker = "analysis" /\ analysis' \in { "error", "no_type" })
              => (pc' = "ret" /\ out' = << >>) ]_vars

\* The loop of run after a panic of the compiler thread of a round, on an
\* engine that holds the module of an earlier round
C19_Witness ==
    /\ api = "run" /\ CompileFailed
    /\ worker = "none"
    /\ Len(modules) >= 2

-----------------------------------------------------------------------------
(* Properties of the statements of a round *)

\* The line that opens the function holding the statements of the round
InnerOpen == << "fn _rusti_inner() {" >>

\* C20: handle_input replaces the last statement by the printing form
\* around its text, and no other statement, when last_expr is true and there
\* are statements; it changes no statement when last_expr is false or there
\* are none; and the statements stand in the entry body in their order.
C20_OnlyLastStatementRewritten ==
    EntryGenerated
    => LET given == Unwrap(cur).input.statements
           stmts == Unwrap(input).statements
           n == Len(given)
           ls == Lines(Unwrap(body))
           k == CHOOSE j \in 1..Len(ls) : ls[j] = InnerOpen
       IN  /\ Len(stmts) = n
           /\ IF Unwrap(cur).input.last_expr /\ n > 0
              THEN /\ \A j \in 1..(n - 1) : stmts[j] = given[j]
                   /\ stmts[n] = << "println!(\"{}\", { " >> \o given[n] \o << " });" >>
              ELSE stmts = given
           /\ Cardinality({ j \in 1..Len(ls) : ls[j] = InnerOpen }) = 1
           /\ (n > 0) => /\ SubSeq(ls, k + 1, k + n) = stmts
                         /\ ls[k + n + 1] = << "}" >>
           /\ (n = 0) => /\ ls[k + 1] = << >>
                         /\ ls[k + 2] = << "}" >>

\* A round of two statements that ends in an expression
C20_Witness ==
    /\ EntryGenerated
    /\ Unwrap(cur).input.last_expr
    /\ Unwrap(cur).input.statements = << StmtLet, StmtCall >>
    /\ Unwrap(input).statements = << StmtLet, print_stmt(StmtCall) >>

-----------------------------------------------------------------------------
(* Properties of build_program without an input *)

\* An Input without attributes, view-items and items
EmptyInputs ==
    { Input(<< >>, << >>, << >>, s, l) :
        s \in { << >>, << StmtExpr >>, << StmtLet, StmtCall >> }, l \in BOOLEAN }

\* build_program has been called without an input
BuiltWithoutInput == api = "build" /\ pc = "built" /\ input = None

\* C21: for every session and every trailing body, build_program without an
\* input gives the text that build_program gives with an input whose
\* attributes, view-items and items are empty.
C21_NoInputIsEmptyInput ==
    BuiltWithoutInput
    => \A e \in EmptyInputs :
          Unwrap(prog) = build_program(Some(e), Unwrap(body))

\* A program built without an input from a session whose view-items are not
\* in sorted order and that holds attributes and items
C21_Witness ==
    /\ BuiltWithoutInput
    /\ view_items = << ViewUseOs, ViewExternTime >>
    /\ attributes # << >> /\ items # << >>

-----------------------------------------------------------------------------
(* Properties of a type query that finds no type *)

\* The probe went through the analysis and the closure found no type
TypeMissed == pc = "ret" /\ analysis = "no_type"

\* C22: a type query whose probe compiles to the analysis stage without a
\* type being found tells the user "no type found", which tells the miss
\* apart from a failed compile of the probe; the Repl goes on.
C22_MissReportedAsNoTypeFound ==
    /\ TypeMissed => out = << MsgNoTypeFound >>
    /\ (pc = "ret" /\ analysis = "error") => out # << MsgNoTypeFound >>

\* The part of C22 the code keeps: after a miss the Repl goes on, with
\* nothing printed and nothing changed
C22_MissLeavesReplRunning ==
    TypeMissed
    => /\ out = << >>
       /\ api \in { "run", "run_command", "run_file" }
       /\ modules = Unwrap(pre).modules

-----------------------------------------------------------------------------
(* Properties of the module sequence of a Repl *)

\* add_module has registered the module of a round that handle_input has
\* not committed yet
RoundInFlight == pc \in { "added", "commit" }

\* C23: the engine of a Repl holds one module (the one it was built with)
\* more than the rounds committed so far; a round whose module is registered
\* goes on to its commit, so the count is off by that one module only
\* inside handle_input; failed rounds, commands and type queries add no
\* module, and no module is ever removed.
C23_OneModulePerCommittedRound ==
    /\ [](Len(modules) = 1 + committed + (IF RoundInFlight THEN 1 ELSE 0))
    /\ [][ /\ IsPrefix(modules, modules')
           /\ (modules' # modules)
              => (pc = "load_deps" /\ pc' = "added" /\ ProgramRound
                  /\ Len(modules') = Len(modules) + 1)
           /\ RoundInFlight => pc' \in { "commit", "ret" }
           /\ (committed' # committed)
              => (pc = "commit" /\ committed' = committed + 1) ]_vars

\* A Repl that has committed two rounds and has since handled a type query,
\* back between two calls
C23_Witness ==
    /\ api = "none" /\ pc = "idle"
    /\ committed = 2 /\ Len(modules) = 3
    /\ rounds = 3
    /\ out = << MsgType(StmtExpr, TypeInt) >>

-----------------------------------------------------------------------------
(* Properties of run_file entered with the block flag set *)

\* run_file was entered with the flag set and has read nothing since
EnteredFlagged ==
    /\ cur = None /\ IsSome(pre)
    /\ Unwrap(pre).read_block
    /\ (api = "run_file" /\ pc = "file_loop") \/ (api = "none" /\ pc = "idle")

\* C24: run_file never clears the block flag: entered with the flag set it
\* returns false without reading or evaluating a round, and the flag is
\* still set when it has returned, so that the next run_file fails in the
\* same way; only a read of the loop of run clears the flag.
C24_FileRunKeepsFlag ==
    /\ [](EnteredFlagged
          => /\ read_block
             /\ SessionIs(Unwrap(pre).attributes, Unwrap(pre).view_items,
                          Unwrap(pre).items)
             /\ modules = Unwrap(pre).modules
             /\ (api = "none") => result = Some(FALSE))
    /\ [][ /\ (EnteredFlagged /\ api = "run_file")
              => /\ api' = "none" /\ result' = Some(FALSE)
                 /\ out' = << MsgBlockInFile >>
                 /\ rounds' = rounds /\ read_block'
           /\ (api = "run_file" /\ read_block) => read_block'
           /\ (api = "none" /\ api' = "run_file") => (read_block' = read_block)
           /\ (read_block /\ ~read_block') => (api = "run" /\ pc = "run_loop") ]_vars

\* A run_file that was entered with the flag set, after a committed round,
\* and has returned false with the flag still set
C24_Witness ==
    /\ EnteredFlagged
    /\ api = "none" /\ result = Some(FALSE)
    /\ out = << MsgBlockInFile >>
    /\ read_block
    /\ items # << >>

====
